---- MODULE Spec2Model ----
(***************************************************************************)
(* Live market feed, strategy signals and position lifecycle of the        *)
(* Live-Market-Prize consumer.                                             *)
(*                                                                         *)
(* Two threads share the state: the feed thread, which runs the tick       *)
(* callback on_data (market/Datafeed/connection.py), and the control       *)
(* thread, which runs the consumer's handlers (market/consumers.py).       *)
(* on_data is not atomic: it reads the OPEN position, later saves the mtm, *)
(* later closes the position; the model gives it one step per access of    *)
(* the position store, and lets the control thread run in between.         *)
(*                                                                         *)
(* Seven specifications share the state. Spec follows the positions:       *)
(* ticks, strategy signals and the scheduler. SpecStrategy follows the     *)
(* evaluation cycle of handle_get_historical and the ADX and MACD rules.   *)
(* SpecMtm follows the mark-to-market on finely spaced ticks. SpecSession  *)
(* follows the consumer's feed session: login, the transport's callbacks,  *)
(* reconnects, disconnect, and the subscribe and unsubscribe requests.     *)
(* SpecErrors follows the failures of a unit of work: a tick whose store   *)
(* access raises, and control requests the transport refuses. SpecRules    *)
(* applies the pure strategy rules to every indicator snapshot and side,   *)
(* and SpecIndicators the indicators to every number of candles.           *)
(*                                                                         *)
(* Decimal amounts (prices, mtm) are integers counting hundredths of a     *)
(* rupee, so 101.60 is 10160; the feed's raw last_traded_price is an       *)
(* integer that the code divides by 100.                                   *)
(***************************************************************************)
EXTENDS Integers, Sequences, FiniteSets, TLC

\* ------------------------------------------------------------------ bounds

\* Largest quantity of a stored position.
MaxQty == 2

\* Instruments (tokens) the model follows.
Tokens == {1, 2}

\* Raw last_traded_price values the feed delivers; 0 stands for a tick whose
\* last_traded_price is missing or zero (`if not ltp_raw`). The others lie
\* below and above the entry (10000), and below, at and above the stoplosses
\* (9900, 10100) and the targets (10150, 9850) of the stored positions.
TickPrices == {0, 9850, 9900, 9950, 10050, 10100, 10160}

\* Actions a strategy signal carries.
SignalActions == {"BUY", "SELL", "EXIT"}

\* Most candles one historical request returns.
MaxBars == 29

\* Most trading symbols one subscribe or unsubscribe request names.
MaxSyms == 2

\* Most calls of the transport's connect() the model follows.
MaxConnects == 3

\* Trading symbols a request may name, and the exchanges it may give.
Symbols == {"A", "B", "C"}

Exchanges == {"NSE", "BSE"}

\* The tradingsymbols lists of a request: any symbols, repeated or not.
SymbolLists == UNION {[1..n -> Symbols] : n \in 0..MaxSyms}

\* Instrument masters the download may return. Symbol C is listed on BSE only,
\* so a request for C on NSE resolves to nothing; in the second master C
\* carries on BSE the token that A carries on NSE (a master identifies an
\* instrument by exchange segment and token together).
MasterPlain ==
    <<[symbol |-> "A", exch_seg |-> "NSE", token |-> 1],
      [symbol |-> "B", exch_seg |-> "NSE", token |-> 2]>>

MasterShared == MasterPlain \o <<[symbol |-> "C", exch_seg |-> "BSE", token |-> 1]>>

Masters == {MasterPlain, MasterShared}

\* Raw last_traded_price values one and five hundredths apart, around the
\* thresholds on the change of the mtm.
FineTicks == {0, 10050, 10051, 10055}

\* Raw last_traded_price values of the ticks followed through the session.
SessionTicks == {0, 10050}

\* ------------------------------------------------------- program constants

\* Python's None for a numeric field.
None == -1

\* on_data: ltp = ltp_raw / 100.
PriceDivisor == 100

\* on_data: `if change > 0.01`, in hundredths.
MtmThreshold == 1

\* The threshold of market/connection.py's tick handler (0.05).
LegacyMtmThreshold == 5

\* handle_strategy_signal: the simulated entry/exit price 1062.65.
SimulatedPrice == 106265

\* handle_strategy_signal: quantity=1.
SimulatedQty == 1

\* check_adx_strategy's levels on +DI / -DI (20 and 18), in hundredths.
DiEntryLevel == 2000
DiExitLevel == 1800

\* The default windows: calculate_rsi's and calculate_adx's period, and
\* calculate_macd's slow span.
RsiPeriod == 14
MacdSlow == 26
AdxPeriod == 14

\* ------------------------------------------------------------ strategy inputs

\* Windows the indicators are called with: the defaults, and short ones.
Periods == {2, 3, RsiPeriod, AdxPeriod}

SlowSpans == {3, MacdSlow}

\* Values of the rounded directional indicators +DI and -DI, in hundredths:
\* below the exit level, at it, at the entry level and above it.
DiValues == {1700, 1800, 2000, 2100}

\* The ADX block of the response: calculate_adx returns all three values, or
\* None for each of them.
AdxInfos ==
    {[adx |-> None, di_plus |-> None, di_minus |-> None]}
    \cup {[adx |-> 2500, di_plus |-> p, di_minus |-> m] : p, m \in DiValues}

\* Values of the rounded MACD line, in ten-thousandths.
MacdLines == {-5, 0, 5}

\* The sides a rule may be asked about.
Sides == {"NONE", "LONG", "SHORT"}

\* The MACD block of the response: the line, or None (has = FALSE).
MacdInfos ==
    {[has |-> FALSE, line |-> 0]} \cup {[has |-> TRUE, line |-> v] : v \in MacdLines}

\* ------------------------------------------------------------------- state

VARIABLES
    positions,  \* self.positions: token -> [side, ...], the consumer's tracker
    db,         \* Position.objects: the rows of the position store, by id
    feed,       \* the feed thread: where on_data is, and its locals
    sent,       \* the events the last step handed to consumer.send, in order
    last,       \* the operation the last step belongs to, and its inputs
    instrument_list,    \* self.instrument_list; <<>> while None
    subscribed_tokens,  \* self.subscribed_tokens: exchangeType -> set of tokens
    token_symbol_map,   \* self.token_symbol_map: token -> tradingsymbol
    sws,        \* self.sws, the feed transport: whether it exists, its phase,
                \* the connect() calls so far, whether disconnect was called,
                \* and the (exchangeType, token) pairs subscribed on the
                \* current connection
    calls       \* the calls the last step made on the transport, in order

session == <<instrument_list, subscribed_tokens, token_symbol_map, sws, calls>>

vars == <<positions, db, feed, sent, last, instrument_list, subscribed_tokens,
          token_symbol_map, sws, calls>>

\* --------------------------------------------------------- position store

Min(S) == CHOOSE x \in S : \A y \in S : x <= y

Abs(x) == IF x < 0 THEN -x ELSE x

\* Position.objects.filter(token=token, status="OPEN"): the matching ids.
OpenIds(d, tok) == {i \in DOMAIN d : d[i].token = tok /\ d[i].status = "OPEN"}

\* A plausible slip: the status filter is dropped.
FindAny(d, tok) ==
    LET ids == {i \in DOMAIN d : d[i].token = tok}
    IN  IF ids = {} THEN 0 ELSE Min(ids)

\* Position.objects.filter(token=token, status="OPEN").first(): the id of the
\* first matching row in primary-key order, 0 when there is none.
FindOpen(d, tok) == IF OpenIds(d, tok) = {} THEN 0 ELSE Min(OpenIds(d, tok))

HasOpen(d, tok) == OpenIds(d, tok) # {}

\* Realized or unrealized profit of a position of side `side`.
SidePnl(side, entry, price, qty) ==
    IF side = "LONG" THEN (price - entry) * qty ELSE (entry - price) * qty

\* Target and stoploss of a new position: 1% risk, reward 1.5 times the risk.
RiskOf(entry) == entry \div 100

TargetOf(side, entry) ==
    IF side = "LONG" THEN entry + (3 * RiskOf(entry)) \div 2
                     ELSE entry - (3 * RiskOf(entry)) \div 2

StoplossOf(side, entry) ==
    IF side = "LONG" THEN entry - RiskOf(entry) ELSE entry + RiskOf(entry)

NewRow(tok, side, entry, qty) ==
    [token |-> tok, status |-> "OPEN", side |-> side, entry_price |-> entry,
     quantity |-> qty, mtm |-> 0, target |-> TargetOf(side, entry),
     stoploss |-> StoplossOf(side, entry), exit_price |-> None,
     exit_reason |-> ""]

\* closePosition: the OPEN row of the token becomes CLOSED with the exit price,
\* the reason and the realized profit; nothing to close is a no-op.
CloseRow(d, tok, price, reason) ==
    LET id == FindOpen(d, tok)
    IN  IF id = 0 THEN d
        ELSE LET r == d[id]
             IN  [d EXCEPT ![id] = [r EXCEPT
                     !.status = "CLOSED",
                     !.exit_price = price,
                     !.exit_reason = reason,
                     !.mtm = SidePnl(r.side, r.entry_price, price, r.quantity)]]

\* A plausible slip: the close does not ask whether the position is still OPEN,
\* and closes the token's first row again.
ClosePositionDbAny(d, tok, price, reason) ==
    LET id == FindAny(d, tok)
    IN  IF id = 0 THEN d
        ELSE LET r == d[id]
             IN  [d EXCEPT ![id] = [r EXCEPT
                     !.status = "CLOSED",
                     !.exit_price = price,
                     !.exit_reason = reason,
                     !.mtm = SidePnl(r.side, r.entry_price, price, r.quantity)]]

\* consumer.close_position_db(symbol_token, exit_price, exit_reason).
ClosePositionDb(d, tok, price, reason) == CloseRow(d, tok, price, reason)

\* ------------------------------------------------------------- tick handler

\* ltp = ltp_raw / 100, in hundredths.
Ltp(ltp_raw) == (ltp_raw * 100) \div PriceDivisor

\* The "direction-aware" mtm of on_data: the side is guessed from the price.
TickMtm(ltp, entry, qty) ==
    IF ltp >= entry THEN (ltp - entry) * qty ELSE (entry - ltp) * qty

DirGuess(ltp, entry) == IF ltp >= entry THEN "LONG" ELSE "SHORT"

\* "Target hit?": ltp >= target * 0.99 and ltp >= entry, or
\* ltp <= target * 1.01 and ltp <= entry.
TargetHit(ltp, target, entry) ==
    /\ target # None
    /\ \/ (100 * ltp >= 99 * target /\ ltp >= entry)
       \/ (100 * ltp <= 101 * target /\ ltp <= entry)

\* A plausible slip: strict comparisons.
StoplossHitStrict(ltp, stoploss, entry) ==
    /\ stoploss # None
    /\ \/ (ltp < stoploss /\ ltp < entry)
       \/ (ltp > stoploss /\ ltp > entry)

\* "Stoploss hit?": ltp <= stoploss and ltp <= entry, or
\* ltp >= stoploss and ltp >= entry.
StoplossHit(ltp, stoploss, entry) ==
    /\ stoploss # None
    /\ \/ (ltp <= stoploss /\ ltp <= entry)
       \/ (ltp >= stoploss /\ ltp >= entry)

\* exit_reason after both checks: the stoploss check runs last and overwrites.
ExitReason(ltp, pos) ==
    IF StoplossHit(ltp, pos.stoploss, pos.entry_price) THEN "Stoploss hit"
    ELSE IF TargetHit(ltp, pos.target, pos.entry_price) THEN "Target reached"
    ELSE ""

ShouldExit(ltp, pos) ==
    \/ TargetHit(ltp, pos.target, pos.entry_price)
    \/ StoplossHit(ltp, pos.stoploss, pos.entry_price)

NoPos == [token |-> 0]

IdleFeed == [pc |-> "idle", tok |-> 0, ltp |-> 0, id |-> 0, pos |-> NoPos,
             mtm |-> 0, saved |-> FALSE, should_exit |-> FALSE,
             exit_reason |-> ""]

\* token_symbol_map.get(token, "UNKNOWN")
SymbolFor(m, tok) == IF tok \in DOMAIN m THEN m[tok] ELSE "UNKNOWN"

TickEvent(tok, ltp) ==
    [type |-> "tick", symbol |-> SymbolFor(token_symbol_map, tok),
     token |-> tok, ltp |-> ltp]

\* on_data, up to the query of the position store.
OnDataRead(tok, ltp_raw) ==
    /\ feed.pc = "idle"
    /\ last' = [op |-> "on_data", tok |-> tok, arg |-> ltp_raw]
    /\ IF ltp_raw = 0
       THEN /\ sent' = <<>>
            /\ feed' = IdleFeed
       ELSE LET ltp == Ltp(ltp_raw)
                id  == FindOpen(db, tok)
                found == id # 0 /\ db[id].entry_price # None
            IN  /\ sent' = <<TickEvent(tok, ltp)>>
                /\ feed' = [IdleFeed EXCEPT
                       !.pc = IF found THEN "mtm" ELSE "idle",
                       !.tok = tok,
                       !.ltp = ltp,
                       !.id = IF found THEN id ELSE 0,
                       !.pos = IF found THEN db[id] ELSE NoPos]
    /\ UNCHANGED <<positions, db>>
    /\ UNCHANGED session

\* A plausible slip: a change equal to the threshold counts as significant.
SignificantOrEqual(change, threshold) == change >= threshold

\* `if change > 0.01`: the change of the mtm is worth a save and an event.
Significant(change, threshold) == change > threshold

\* on_data, the mtm block: compute, and save when the change is significant.
OnDataMtm ==
    /\ feed.pc = "mtm"
    /\ LET mtm    == TickMtm(feed.ltp, feed.pos.entry_price, feed.pos.quantity)
           change == Abs(mtm - feed.pos.mtm)
           save   == Significant(change, MtmThreshold)
       IN  /\ feed' = [feed EXCEPT
                  !.pc = "exit",
                  !.mtm = mtm,
                  !.saved = save,
                  !.pos = IF save THEN [@ EXCEPT !.mtm = mtm] ELSE @]
           /\ db' = IF save THEN [db EXCEPT ![feed.id].mtm = mtm] ELSE db
           /\ sent' = IF save
                      THEN <<[type |-> "mtm_update", token |-> feed.tok,
                              ltp |-> feed.ltp, mtm |-> mtm,
                              direction_guess |->
                                  DirGuess(feed.ltp, feed.pos.entry_price)]>>
                      ELSE <<>>
    /\ last' = [op |-> "on_data_mtm", tok |-> feed.tok, arg |-> feed.ltp]
    /\ UNCHANGED positions
    /\ UNCHANGED session

\* on_data, the exit block: target and stoploss checks, then the auto exit.
OnDataExit ==
    /\ feed.pc = "exit"
    /\ LET exit   == ShouldExit(feed.ltp, feed.pos)
           reason == ExitReason(feed.ltp, feed.pos)
       IN  /\ feed' = [feed EXCEPT
                  !.pc = "idle",
                  !.should_exit = exit,
                  !.exit_reason = reason]
           /\ db' = IF exit
                    THEN ClosePositionDb(db, feed.tok, feed.ltp, reason)
                    ELSE db
           /\ sent' = IF exit
                      THEN <<[type |-> "auto_exit", token |-> feed.tok,
                              exit_price |-> feed.ltp, exit_reason |-> reason,
                              mtm |-> feed.pos.mtm]>>
                      ELSE <<>>
    /\ last' = [op |-> "on_data_exit", tok |-> feed.tok, arg |-> feed.ltp]
    /\ UNCHANGED positions
    /\ UNCHANGED session

\* on_data when the position store raises at the query: the tick event has
\* been sent, the `except Exception` around the position block prints and
\* logs the error, and the handler returns.
OnDataStoreError(tok, ltp_raw) ==
    /\ feed.pc = "idle"
    /\ ltp_raw # 0
    /\ last' = [op |-> "on_data_error", tok |-> tok, arg |-> ltp_raw]
    /\ sent' = <<TickEvent(tok, Ltp(ltp_raw))>>
    /\ feed' = [IdleFeed EXCEPT !.tok = tok, !.ltp = Ltp(ltp_raw)]
    /\ UNCHANGED <<positions, db>>
    /\ UNCHANGED session

\* The on_data of market/connection.py, the earlier variant of the tick
\* handler: the mtm assumes a LONG position of quantity 1, the threshold is
\* 0.05, and there is no exit check.
LegacyOnData(tok, ltp_raw) ==
    /\ feed.pc = "idle"
    /\ last' = [op |-> "legacy_on_data", tok |-> tok, arg |-> ltp_raw]
    /\ IF ltp_raw = 0
       THEN /\ sent' = <<>>
            /\ feed' = IdleFeed
            /\ db' = db
       ELSE LET ltp   == Ltp(ltp_raw)
                id    == FindOpen(db, tok)
                found == id # 0 /\ db[id].entry_price # None
                mtm   == IF found THEN (ltp - db[id].entry_price) * 1 ELSE 0
                save  == found /\ Significant(Abs(mtm - db[id].mtm),
                                              LegacyMtmThreshold)
            IN  /\ feed' = [IdleFeed EXCEPT
                       !.tok = tok,
                       !.ltp = ltp,
                       !.id = IF found THEN id ELSE 0,
                       !.pos = IF found THEN db[id] ELSE NoPos,
                       !.mtm = mtm,
                       !.saved = save]
                /\ db' = IF save THEN [db EXCEPT ![id].mtm = mtm] ELSE db
                /\ sent' = <<TickEvent(tok, ltp)>>
                           \o (IF save
                               THEN <<[type |-> "mtm_update", token |-> tok,
                                       ltp |-> ltp, mtm |-> mtm]>>
                               ELSE <<>>)
    /\ UNCHANGED positions
    /\ UNCHANGED session

\* ---------------------------------------------------------- signal handler

\* A plausible slip (and the likely intent): a token without an entry counts
\* as side NONE, as in check_adx_strategy's .get('side', 'NONE').
SideIsNoneDefaulted(p, tok) == tok \notin DOMAIN p \/ p[tok].side = "NONE"

\* self.positions.get(symbol_token, {}).get("side") == "NONE": a token without
\* an entry yields None, which is not "NONE".
SideIsNone(p, tok) == tok \in DOMAIN p /\ p[tok].side = "NONE"

\* self.update_position(symbol_token, side, price, quantity): the tracker's part.
UpdatePosition(p, tok, side, price, qty) ==
    [t \in DOMAIN p \cup {tok} |->
        IF t = tok THEN [side |-> side, entry_price |-> price, quantity |-> qty]
        ELSE p[t]]

\* self.close_position(symbol_token, price): the tracker's part.
ClosePosition(p, tok) == [p EXCEPT ![tok] = [side |-> "NONE"]]

\* self.positions.get(symbol_token, {"side": "NONE"}) / .get('side', 'NONE'):
\* the side the tracker holds for a token, NONE when it holds no entry.
TrackerSide(p, tok) == IF tok \in DOMAIN p THEN p[tok].side ELSE "NONE"

SignalEvent(p, tok, action) ==
    [type |-> "strategy_signal", token |-> tok, action |-> action,
     current_side |-> TrackerSide(p, tok)]

\* The tracker after handle_strategy_signal's simulated position update.
SignalPositions(p, tok, action) ==
    IF action = "BUY" /\ SideIsNone(p, tok)
    THEN UpdatePosition(p, tok, "LONG", SimulatedPrice, SimulatedQty)
    ELSE IF action = "SELL" /\ SideIsNone(p, tok)
    THEN UpdatePosition(p, tok, "SHORT", SimulatedPrice, SimulatedQty)
    ELSE IF action = "EXIT" /\ tok \in DOMAIN p
    THEN ClosePosition(p, tok)
    ELSE p

\* The store after handle_strategy_signal's simulated position update.
SignalDb(d, p, tok, action) ==
    IF action = "BUY" /\ SideIsNone(p, tok)
    THEN Append(d, NewRow(tok, "LONG", SimulatedPrice, SimulatedQty))
    ELSE IF action = "SELL" /\ SideIsNone(p, tok)
    THEN Append(d, NewRow(tok, "SHORT", SimulatedPrice, SimulatedQty))
    ELSE IF action = "EXIT" /\ tok \in DOMAIN p
    THEN CloseRow(d, tok, SimulatedPrice, "Strategy exit")
    ELSE d

HandleStrategySignal(tok, action) ==
    /\ sent' = <<SignalEvent(positions, tok, action)>>
    /\ last' = [op |-> "signal", tok |-> tok, arg |-> action]
    /\ positions' = SignalPositions(positions, tok, action)
    /\ db' = SignalDb(db, positions, tok, action)
    /\ UNCHANGED feed
    /\ UNCHANGED session

\* ---------------------------------------------------------------- indicators

\* The sequence a, a+1, ..., b; empty when b < a.
Range(a, b) == [i \in 1..(IF b < a THEN 0 ELSE b - a + 1) |-> a + i - 1]

\* None, for the RSI.
NoRsi == [has |-> FALSE, seed |-> <<>>, steps |-> <<>>]

\* A plausible slip: the RSI asks for `period` closes only.
CalculateRsiShortWindow(n, period) ==
    IF n < period
    THEN NoRsi
    ELSE [has |-> TRUE,
          seed |-> Range(1, Min({period + 1, n - 1})),
          steps |-> Range(period, n - 1)]

\* calculate_rsi on n closes, which have the n - 1 deltas 1 .. n-1 (np.diff):
\* None below period + 1 closes. Otherwise the value is made of the seed
\* averages, gains and losses of deltas[:period+1] summed and divided by
\* period, and of one smoothing step for each i in range(period, n), which
\* applies deltas[i - 1]. The result names the deltas the seed sums and the
\* deltas the smoothing steps apply, in order, counted from 1.
CalculateRsi(n, period) ==
    IF n < period + 1
    THEN NoRsi
    ELSE [has |-> TRUE,
          seed |-> Range(1, Min({period + 1, n - 1})),
          steps |-> Range(period, n - 1)]

\* calculate_macd on n closes: whether it returns values (None below `slow`).
CalculateMacd(n, slow) == ~(n < slow)

\* calculate_adx on n bars: whether it returns values (None below 2 * period).
CalculateAdx(n, period) == ~(n < period * 2)

\* The three indicators on the same n candles.
CalculateIndicators(n, period, slow) ==
    /\ last' = [op |-> "calculate", tok |-> 0,
                arg |-> [n |-> n, period |-> period, slow |-> slow],
                out |-> [rsi |-> CalculateRsi(n, period),
                         macd |-> CalculateMacd(n, slow),
                         adx |-> CalculateAdx(n, period)]]
    /\ sent' = <<>>
    /\ UNCHANGED <<positions, db, feed>>
    /\ UNCHANGED session

\* ------------------------------------------------------------ strategy rules

\* A rule that produces no signal returns None.
NoSignal == "None"

\* A plausible slip: with no position, -DI is tested before +DI.
CheckAdxStrategySellFirst(adx_info, current_side) ==
    IF adx_info.adx = None \/ adx_info.di_plus = None \/ adx_info.di_minus = None
    THEN NoSignal
    ELSE IF current_side = "NONE"
    THEN IF adx_info.di_minus > DiEntryLevel THEN "SELL"
         ELSE IF adx_info.di_plus > DiEntryLevel THEN "BUY"
         ELSE NoSignal
    ELSE IF current_side = "LONG"
    THEN IF adx_info.di_plus < DiExitLevel THEN "EXIT" ELSE NoSignal
    ELSE IF current_side = "SHORT"
    THEN IF adx_info.di_minus < DiExitLevel THEN "EXIT" ELSE NoSignal
    ELSE NoSignal

\* check_adx_strategy: the action of the signal, NoSignal for None. The
\* directional indicators are rounded to two decimals and count hundredths.
CheckAdxStrategy(adx_info, current_side) ==
    IF adx_info.adx = None \/ adx_info.di_plus = None \/ adx_info.di_minus = None
    THEN NoSignal
    ELSE IF current_side = "NONE"
    THEN IF adx_info.di_plus > DiEntryLevel THEN "BUY"
         ELSE IF adx_info.di_minus > DiEntryLevel THEN "SELL"
         ELSE NoSignal
    ELSE IF current_side = "LONG"
    THEN IF adx_info.di_plus < DiExitLevel THEN "EXIT" ELSE NoSignal
    ELSE IF current_side = "SHORT"
    THEN IF adx_info.di_minus < DiExitLevel THEN "EXIT" ELSE NoSignal
    ELSE NoSignal

\* A plausible slip: a MACD line of zero counts as bullish.
CheckMacdStrategyZeroBuys(macd_info, current_side) ==
    IF ~macd_info.has
    THEN NoSignal
    ELSE IF current_side = "NONE"
    THEN IF macd_info.line >= 0 THEN "BUY" ELSE "SELL"
    ELSE IF current_side = "LONG"
    THEN IF macd_info.line < 0 THEN "EXIT" ELSE NoSignal
    ELSE IF current_side = "SHORT"
    THEN IF macd_info.line > 0 THEN "EXIT" ELSE NoSignal
    ELSE NoSignal

\* check_macd_strategy: the action of the signal, NoSignal for None.
CheckMacdStrategy(macd_info, current_side) ==
    IF ~macd_info.has
    THEN NoSignal
    ELSE IF current_side = "NONE"
    THEN IF macd_info.line > 0 THEN "BUY"
         ELSE IF macd_info.line < 0 THEN "SELL"
         ELSE NoSignal
    ELSE IF current_side = "LONG"
    THEN IF macd_info.line < 0 THEN "EXIT" ELSE NoSignal
    ELSE IF current_side = "SHORT"
    THEN IF macd_info.line > 0 THEN "EXIT" ELSE NoSignal
    ELSE NoSignal

\* The rules of market/utils/strategies.py, which take the side as argument:
\* one call of each, the results kept with the inputs.
CheckStrategies(adx_info, macd_info, current_side) ==
    /\ last' = [op |-> "check_strategies", tok |-> 0,
                arg |-> [adx_info |-> adx_info, macd_info |-> macd_info,
                         current_side |-> current_side],
                out |-> [adx |-> CheckAdxStrategy(adx_info, current_side),
                         macd |-> CheckMacdStrategy(macd_info, current_side)]]
    /\ sent' = <<>>
    /\ UNCHANGED <<positions, db, feed>>
    /\ UNCHANGED session

\* `adx_signal or macd_signal`: the first of the two that is not None.
EitherSignal(adx_signal, macd_signal) ==
    IF adx_signal # NoSignal THEN adx_signal ELSE macd_signal

\* handle_get_historical: one evaluation cycle for a token. The candles the
\* broker returns stand behind the indicator values, which are the inputs;
\* without candles the handler only reports the error.
HandleGetHistorical(tok, candles_ok, adx_info, macd_info) ==
    LET side        == TrackerSide(positions, tok)
        adx_signal  == CheckAdxStrategy(adx_info, side)
        macd_signal == CheckMacdStrategy(macd_info, side)
        signal      == EitherSignal(adx_signal, macd_signal)
        response    == [type |-> "historical_data_with_indicators", token |-> tok,
                        adx |-> adx_info, macd |-> macd_info]
    IN  /\ last' = [op |-> "get_historical", tok |-> tok,
                    arg |-> IF candles_ok
                            THEN <<adx_signal, macd_signal>>
                            ELSE <<"error", "error">>]
        /\ IF ~candles_ok
           THEN /\ sent' = <<[type |-> "error", token |-> tok]>>
                /\ UNCHANGED <<positions, db>>
           ELSE IF signal # NoSignal
           THEN /\ sent' = <<SignalEvent(positions, tok, signal), response>>
                /\ positions' = SignalPositions(positions, tok, signal)
                /\ db' = SignalDb(db, positions, tok, signal)
           ELSE /\ sent' = <<response>>
                /\ UNCHANGED <<positions, db>>
        /\ UNCHANGED feed
        /\ UNCHANGED session

\* ---------------------------------------------------------------- scheduler

SquareOffReason == "Market close auto square-off"

\* A plausible slip: the job stops after the first OPEN row it closes.
SquareOffFirst(d) ==
    [i \in DOMAIN d |->
        IF d[i].status = "OPEN" /\ \A j \in 1..(i - 1) : d[j].status # "OPEN"
        THEN [d[i] EXCEPT
                 !.status = "CLOSED",
                 !.exit_price = d[i].entry_price,
                 !.exit_reason = SquareOffReason,
                 !.mtm = SidePnl(d[i].side, d[i].entry_price,
                                 d[i].entry_price, d[i].quantity)]
        ELSE d[i]]

\* The forced square-off: every OPEN row is closed at its own entry price.
SquareOffAll(d) ==
    [i \in DOMAIN d |->
        IF d[i].status = "OPEN"
        THEN [d[i] EXCEPT
                 !.status = "CLOSED",
                 !.exit_price = d[i].entry_price,
                 !.exit_reason = SquareOffReason,
                 !.mtm = SidePnl(d[i].side, d[i].entry_price,
                                 d[i].entry_price, d[i].quantity)]
        ELSE d[i]]

\* The periodic job, on its own thread: it reports the OPEN positions and,
\* past the end-of-session cutoff, squares them off.
SchedulerJob(past_cutoff) ==
    /\ sent' = <<[type |-> "open_positions",
                  tokens |-> {t \in Tokens : HasOpen(db, t)}]>>
    /\ db' = IF past_cutoff THEN SquareOffAll(db) ELSE db
    /\ last' = [op |-> "scheduler", tok |-> 0,
                arg |-> IF past_cutoff THEN "past" ELSE "before"]
    /\ UNCHANGED <<positions, feed>>
    /\ UNCHANGED session

\* ------------------------------------------------------ instrument registry

\* EXCHANGE_MAP.get(exchange, 1)
ExchangeType(exchange) ==
    CASE exchange = "NSE"   -> 1
      [] exchange = "NFO"   -> 2
      [] exchange = "BSE"   -> 3
      [] exchange = "BFO"   -> 4
      [] exchange = "MCX"   -> 5
      [] exchange = "NCO"   -> 5
      [] exchange = "NCDEX" -> 7
      [] exchange = "CDS"   -> 13
      [] OTHER              -> 1

Max(S) == CHOOSE x \in S : \A y \in S : x >= y

SeqToSet(s) == {s[i] : i \in DOMAIN s}

\* An empty dict.
EmptyMap == [k \in {} |-> 0]

\* The inner loop of the lookup: the index of the first instrument of the list
\* with this symbol on this exchange, 0 when there is none.
FirstMatch(list, ts, exchange) ==
    LET hits == {i \in DOMAIN list :
                    list[i].symbol = ts /\ list[i].exch_seg = exchange}
    IN  IF hits = {} THEN 0 ELSE Min(hits)

IsSubscribed(st, exchange_type, token) ==
    exchange_type \in DOMAIN st /\ token \in st[exchange_type]

\* A plausible slip: the loop over the requested symbols stops at the first
\* symbol the master does not hold.
RECURSIVE SubscribeTokensStopAtUnknown(_, _, _, _)
SubscribeTokensStopAtUnknown(list, st, syms, exchange) ==
    IF syms = <<>> THEN <<>>
    ELSE LET i    == FirstMatch(list, Head(syms), exchange)
             rest == SubscribeTokensStopAtUnknown(list, st, Tail(syms), exchange)
         IN  IF i = 0 THEN <<>>
             ELSE IF ~IsSubscribed(st, ExchangeType(exchange), list[i].token)
             THEN <<list[i].token>> \o rest
             ELSE rest

\* handle_subscribe's `tokens` list: for each requested symbol in turn, the
\* token of its instrument when that token is not in the segment's set.
RECURSIVE SubscribeTokens(_, _, _, _)
SubscribeTokens(list, st, syms, exchange) ==
    IF syms = <<>> THEN <<>>
    ELSE LET i    == FirstMatch(list, Head(syms), exchange)
             rest == SubscribeTokens(list, st, Tail(syms), exchange)
         IN  IF i # 0 /\ ~IsSubscribed(st, ExchangeType(exchange), list[i].token)
             THEN <<list[i].token>> \o rest
             ELSE rest

\* handle_unsubscribe's `tokens` list: for each requested symbol in turn, the
\* token of its instrument when that token is in the segment's set.
RECURSIVE UnsubscribeTokens(_, _, _, _)
UnsubscribeTokens(list, st, syms, exchange) ==
    IF syms = <<>> THEN <<>>
    ELSE LET i    == FirstMatch(list, Head(syms), exchange)
             rest == UnsubscribeTokens(list, st, Tail(syms), exchange)
         IN  IF i # 0 /\ IsSubscribed(st, ExchangeType(exchange), list[i].token)
             THEN <<list[i].token>> \o rest
             ELSE rest

\* handle_subscribe's new_token_symbol_map: every resolved token, mapped to
\* the last requested symbol that resolved to it.
NewTokenSymbolMap(list, syms, exchange) ==
    LET hit(k) == FirstMatch(list, syms[k], exchange)
        ks     == {k \in DOMAIN syms : hit(k) # 0}
        toks   == {list[hit(k)].token : k \in ks}
    IN  [t \in toks |-> syms[Max({k \in ks : list[hit(k)].token = t})]]

\* dict.update
MapUpdate(m, n) ==
    [t \in DOMAIN m \cup DOMAIN n |-> IF t \in DOMAIN n THEN n[t] ELSE m[t]]

\* The set is created when the segment has none, then updated with the tokens.
AddTokens(st, exchange_type, tokens) ==
    [k \in DOMAIN st \cup {exchange_type} |->
        IF k = exchange_type
        THEN (IF k \in DOMAIN st THEN st[k] ELSE {}) \cup SeqToSet(tokens)
        ELSE st[k]]

\* A plausible slip: the segment's key is kept when its set becomes empty.
RemoveTokensKeepKey(st, exchange_type, tokens) ==
    [st EXCEPT ![exchange_type] = @ \ SeqToSet(tokens)]

\* difference_update, then `del` of the segment's key when its set is empty.
RemoveTokens(st, exchange_type, tokens) ==
    LET rest == st[exchange_type] \ SeqToSet(tokens)
    IN  IF rest = {}
        THEN [k \in DOMAIN st \ {exchange_type} |-> st[k]]
        ELSE [st EXCEPT ![exchange_type] = rest]

\* `del self.token_symbol_map[token]` for each of the tokens it holds.
MapDelete(m, tokens) == [t \in DOMAIN m \ SeqToSet(tokens) |-> m[t]]

\* A plausible slip: the subscription sets are updated although the
\* transport's call raised.
TransportAcceptsAnyway(transport_ok) == TRUE

\* self.sws.subscribe / unsubscribe return: the transport exists, its
\* connection is open and the send goes through; otherwise the call raises.
TransportAccepts(transport_ok) ==
    sws.created /\ sws.phase = "open" /\ transport_ok

Pairs(exchange_type, tokens) == {<<exchange_type, t>> : t \in SeqToSet(tokens)}

ErrorEvent(message) == [type |-> "error", message |-> message]

StatusEvent(status) == [type |-> "status", status |-> status]

\* A plausible slip: the handlers do not test the instrument list.
NotLoadedIgnored(list) == FALSE

\* `if not self.instrument_list`: None until the download succeeds.
NotLoaded(list) == list = <<>>

HandleSubscribe(syms, exchange, transport_ok) ==
    /\ ~sws.shutdown
    /\ last' = [op |-> "subscribe", tok |-> 0,
                arg |-> [syms |-> syms, exchange |-> exchange,
                         ok |-> transport_ok]]
    /\ IF NotLoaded(instrument_list)
       THEN /\ sent' = <<ErrorEvent("Instrument list not loaded")>>
            /\ calls' = <<>>
            /\ UNCHANGED <<subscribed_tokens, token_symbol_map, sws>>
       ELSE LET exchange_type == ExchangeType(exchange)
                tokens == SubscribeTokens(instrument_list, subscribed_tokens,
                                          syms, exchange)
            IN  IF tokens = <<>>
                THEN /\ sent' = <<>>
                     /\ calls' = <<>>
                     /\ UNCHANGED <<subscribed_tokens, token_symbol_map, sws>>
                ELSE IF ~TransportAccepts(transport_ok)
                THEN /\ sent' = <<ErrorEvent("subscribe raised")>>
                     /\ calls' = <<>>
                     /\ UNCHANGED <<subscribed_tokens, token_symbol_map, sws>>
                ELSE /\ calls' = <<[op |-> "subscribe",
                                    exchangeType |-> exchange_type,
                                    tokens |-> tokens]>>
                     /\ sws' = [sws EXCEPT
                            !.wire = @ \cup Pairs(exchange_type, tokens)]
                     /\ subscribed_tokens' =
                            AddTokens(subscribed_tokens, exchange_type, tokens)
                     /\ token_symbol_map' =
                            MapUpdate(token_symbol_map,
                                      NewTokenSymbolMap(instrument_list, syms,
                                                        exchange))
                     /\ sent' = <<StatusEvent("subscribed")>>
    /\ UNCHANGED <<positions, db, feed, instrument_list>>

HandleUnsubscribe(syms, exchange, transport_ok) ==
    /\ ~sws.shutdown
    /\ last' = [op |-> "unsubscribe", tok |-> 0,
                arg |-> [syms |-> syms, exchange |-> exchange,
                         ok |-> transport_ok]]
    /\ IF NotLoaded(instrument_list)
       THEN /\ sent' = <<ErrorEvent("Instrument list not loaded")>>
            /\ calls' = <<>>
            /\ UNCHANGED <<subscribed_tokens, token_symbol_map, sws>>
       ELSE LET exchange_type == ExchangeType(exchange)
                tokens == UnsubscribeTokens(instrument_list, subscribed_tokens,
                                            syms, exchange)
            IN  IF tokens = <<>>
                THEN /\ sent' = <<>>
                     /\ calls' = <<>>
                     /\ UNCHANGED <<subscribed_tokens, token_symbol_map, sws>>
                ELSE IF ~TransportAccepts(transport_ok)
                THEN /\ sent' = <<ErrorEvent("unsubscribe raised")>>
                     /\ calls' = <<>>
                     /\ UNCHANGED <<subscribed_tokens, token_symbol_map, sws>>
                ELSE /\ calls' = <<[op |-> "unsubscribe",
                                    exchangeType |-> exchange_type,
                                    tokens |-> tokens]>>
                     /\ sws' = [sws EXCEPT
                            !.wire = @ \ Pairs(exchange_type, tokens)]
                     /\ subscribed_tokens' =
                            RemoveTokens(subscribed_tokens, exchange_type, tokens)
                     /\ token_symbol_map' = MapDelete(token_symbol_map, tokens)
                     /\ sent' = <<StatusEvent("unsubscribed")>>
    /\ UNCHANGED <<positions, db, feed, instrument_list>>

\* --------------------------------------------------------------- feed session

\* The transport before start_smartapi creates it.
NoTransport ==
    [created |-> FALSE, phase |-> "start", shutdown |-> FALSE, connects |-> 0,
     wire |-> {}]

\* A plausible slip: the `return` after the rejected login is missing, and
\* start_smartapi goes on to create and connect the transport.
LoginRejectedGoesOn(s) ==
    [s EXCEPT !.created = TRUE, !.connects = 1, !.phase = "opening"]

\* The transport after a rejected login: start_smartapi returns, self.sws
\* stays None.
LoginRejected(s) == [s EXCEPT !.phase = "login_failed"]

\* start_smartapi, on its own thread: login, download of the instrument
\* master, creation of the transport and the first connect().
StartSmartApi(login_ok, fetch, master, connect_ok) ==
    /\ sws.phase = "start"
    /\ last' = [op |-> "start_smartapi", tok |-> 0,
                arg |-> <<login_ok, fetch, connect_ok>>]
    /\ calls' = <<>>
    /\ IF ~login_ok
       THEN /\ sent' = <<[type |-> "error", message |-> "Login failed",
                          login_status |-> "FAILED"]>>
            /\ sws' = LoginRejected(sws)
            /\ UNCHANGED instrument_list
       ELSE IF fetch = "raise"
       THEN /\ sent' = <<[type |-> "status", status |-> "Login Successful",
                          login_status |-> "SUCCESS"],
                         [type |-> "error", message |-> "Login/Datafeed failed",
                          login_status |-> "FAILED"]>>
            /\ sws' = [sws EXCEPT !.phase = "setup_failed"]
            /\ UNCHANGED instrument_list
       ELSE /\ instrument_list' = IF fetch = "ok" THEN master ELSE instrument_list
            /\ sws' = [sws EXCEPT
                   !.created = TRUE,
                   !.connects = 1,
                   !.phase = IF connect_ok THEN "opening" ELSE "setup_failed"]
            /\ sent' = <<[type |-> "status", status |-> "Login Successful",
                          login_status |-> "SUCCESS"]>>
                       \o (IF fetch = "ok" THEN <<>>
                           ELSE <<ErrorEvent("Instrument list download failed")>>)
                       \o (IF connect_ok THEN <<>>
                           ELSE <<[type |-> "error",
                                   message |-> "Login/Datafeed failed",
                                   login_status |-> "FAILED"]>>)
    /\ UNCHANGED <<positions, db, feed, subscribed_tokens, token_symbol_map>>

\* start_smartapi up to the download of the instrument master, when the
\* control thread gets to run before the session thread creates the
\* transport: self.instrument_list is loaded and self.sws is still None.
StartSmartApiFetch(master) ==
    /\ sws.phase = "start"
    /\ last' = [op |-> "start_smartapi_fetch", tok |-> 0, arg |-> 0]
    /\ calls' = <<>>
    /\ sent' = <<[type |-> "status", status |-> "Login Successful",
                  login_status |-> "SUCCESS"]>>
    /\ instrument_list' = master
    /\ sws' = [sws EXCEPT !.phase = "fetched"]
    /\ UNCHANGED <<positions, db, feed, subscribed_tokens, token_symbol_map>>

\* The rest of that start_smartapi: creation of the transport and the first
\* connect().
StartSmartApiDatafeed(connect_ok) ==
    /\ sws.phase = "fetched"
    /\ last' = [op |-> "start_smartapi_datafeed", tok |-> 0, arg |-> connect_ok]
    /\ calls' = <<>>
    /\ sws' = [sws EXCEPT
           !.created = TRUE,
           !.connects = 1,
           !.phase = IF connect_ok THEN "opening" ELSE "setup_failed"]
    /\ sent' = IF connect_ok THEN <<>>
               ELSE <<[type |-> "error", message |-> "Login/Datafeed failed",
                       login_status |-> "FAILED"]>>
    /\ UNCHANGED <<positions, db, feed, instrument_list, subscribed_tokens,
                   token_symbol_map>>

\* on_open
OnOpen ==
    /\ sws.phase = "opening"
    /\ sws' = [sws EXCEPT !.phase = "open"]
    /\ sent' = <<StatusEvent("Datafeed Connected")>>
    /\ calls' = <<>>
    /\ last' = [op |-> "on_open", tok |-> 0, arg |-> 0]
    /\ UNCHANGED <<positions, db, feed, instrument_list, subscribed_tokens,
                   token_symbol_map>>

\* The connection drops: the transport will fire on_close.
TransportClosed ==
    /\ sws.phase = "open"
    /\ sws' = [sws EXCEPT !.phase = "closed", !.wire = {}]
    /\ sent' = <<>>
    /\ calls' = <<>>
    /\ last' = [op |-> "transport_closed", tok |-> 0, arg |-> 0]
    /\ UNCHANGED <<positions, db, feed, instrument_list, subscribed_tokens,
                   token_symbol_map>>

\* on_close: the status event, the 5 s sleep, then one connect().
OnClose(connect_ok) ==
    /\ sws.phase = "closed"
    /\ sws.connects < MaxConnects
    /\ sws' = [sws EXCEPT
           !.connects = @ + 1,
           !.phase = IF connect_ok THEN "opening" ELSE "reconnect_failed"]
    /\ sent' = <<StatusEvent("Datafeed Disconnected - Reconnecting...")>>
               \o (IF connect_ok THEN <<>> ELSE <<ErrorEvent("Reconnect failed")>>)
    /\ calls' = <<[op |-> "connect"]>>
    /\ last' = [op |-> "on_close", tok |-> 0, arg |-> connect_ok]
    /\ UNCHANGED <<positions, db, feed, instrument_list, subscribed_tokens,
                   token_symbol_map>>

\* disconnect: the client is gone; the transport, when there is one, is
\* closed, and a live connection fires on_close.
Disconnect ==
    /\ ~sws.shutdown
    /\ sws' = IF sws.created
              THEN [sws EXCEPT
                       !.shutdown = TRUE,
                       !.phase = IF @ \in {"opening", "open"} THEN "closed" ELSE @,
                       !.wire = {}]
              ELSE [sws EXCEPT !.shutdown = TRUE]
    /\ sent' = <<>>
    /\ calls' = IF sws.created THEN <<[op |-> "close_connection"]>> ELSE <<>>
    /\ last' = [op |-> "disconnect", tok |-> 0, arg |-> 0]
    /\ UNCHANGED <<positions, db, feed, instrument_list, subscribed_tokens,
                   token_symbol_map>>

\* handle_relogin: a new broker session; the transport is not touched.
HandleRelogin(login_ok) ==
    /\ ~sws.shutdown
    /\ sent' = IF login_ok
               THEN <<StatusEvent("Re-login successful - session refreshed")>>
               ELSE <<ErrorEvent("Re-login failed")>>
    /\ calls' = <<>>
    /\ last' = [op |-> "relogin", tok |-> 0, arg |-> login_ok]
    /\ UNCHANGED <<positions, db, feed, instrument_list, subscribed_tokens,
                   token_symbol_map, sws>>

\* The on_data that start_smartapi registers (market/consumers.py).
ConsumerOnData(tok, ltp_raw) ==
    /\ sws.phase = "open"
    /\ sent' = IF ltp_raw = 0 THEN <<>> ELSE <<TickEvent(tok, Ltp(ltp_raw))>>
    /\ calls' = <<>>
    /\ last' = [op |-> "consumer_on_data", tok |-> tok, arg |-> ltp_raw]
    /\ UNCHANGED <<positions, db, feed, instrument_list, subscribed_tokens,
                   token_symbol_map, sws>>

\* ------------------------------------------------------------ specification

\* The rows the store may hold for a token when the consumer is constructed:
\* none, or one position, OPEN or already CLOSED.
StoredRows(tok) ==
    {[token |-> tok, status |-> "OPEN", side |-> "LONG", entry_price |-> 10000,
      quantity |-> q, mtm |-> 0, target |-> 10150, stoploss |-> 9900,
      exit_price |-> None, exit_reason |-> ""] : q \in 1..MaxQty}
    \cup
    {[token |-> tok, status |-> "OPEN", side |-> "SHORT", entry_price |-> 10000,
      quantity |-> 1, mtm |-> 0, target |-> 9850, stoploss |-> 10100,
      exit_price |-> None, exit_reason |-> ""],
     [token |-> tok, status |-> "OPEN", side |-> "LONG", entry_price |-> 10000,
      quantity |-> 1, mtm |-> 0, target |-> None, stoploss |-> None,
      exit_price |-> None, exit_reason |-> ""],
     [token |-> tok, status |-> "CLOSED", side |-> "LONG", entry_price |-> 10000,
      quantity |-> 1, mtm |-> 100, target |-> 10150, stoploss |-> 9900,
      exit_price |-> 10100, exit_reason |-> "Stoploss hit"]}

\* The stores the consumer may find: at most one row per token.
RECURSIVE StoredDbs(_)
StoredDbs(toks) ==
    IF toks = {} THEN {<<>>}
    ELSE LET tok  == Min(toks)
             rest == StoredDbs(toks \ {tok})
         IN  rest \cup {<<r>> \o d : d \in rest, r \in StoredRows(tok)}

\* The tracker, the store and the feed thread after construction.
InitStore ==
    /\ positions = <<>>
    /\ feed = IdleFeed
    /\ sent = <<>>
    /\ last = [op |-> "init", tok |-> 0, arg |-> 0]

\* A session that is streaming: logged in, master loaded, connected once,
\* with symbol A (token 1) subscribed on NSE and token 2 not subscribed.
InitStreaming ==
    /\ instrument_list = MasterPlain
    /\ subscribed_tokens = AddTokens(EmptyMap, ExchangeType("NSE"), <<1>>)
    /\ token_symbol_map = MapUpdate(EmptyMap, [t \in {1} |-> "A"])
    /\ sws = [NoTransport EXCEPT !.created = TRUE, !.phase = "open",
                                 !.connects = 1,
                                 !.wire = Pairs(ExchangeType("NSE"), <<1>>)]
    /\ calls = <<>>

Init ==
    /\ InitStore
    /\ db \in StoredDbs(Tokens)
    /\ InitStreaming

Next ==
    \/ \E tok \in Tokens, ltp_raw \in TickPrices : OnDataRead(tok, ltp_raw)
    \/ OnDataMtm
    \/ OnDataExit
    \/ \E tok \in Tokens, action \in SignalActions : HandleStrategySignal(tok, action)
    \/ \E past_cutoff \in BOOLEAN : SchedulerJob(past_cutoff)

Spec == Init /\ [][Next]_vars

\* The strategy cycle alone: evaluation cycles and signals on the control
\* thread, with no tick in between.
NextStrategy ==
    \/ \E tok \in Tokens, candles_ok \in BOOLEAN, adx_info \in AdxInfos,
          macd_info \in MacdInfos :
          HandleGetHistorical(tok, candles_ok, adx_info, macd_info)
    \/ \E tok \in Tokens, action \in SignalActions : HandleStrategySignal(tok, action)

SpecStrategy == Init /\ [][NextStrategy]_vars

\* The mark-to-market of the tick handlers, on finely spaced ticks, with the
\* scheduler's square-off in between.
NextMtm ==
    \/ \E tok \in Tokens, ltp_raw \in FineTicks : OnDataRead(tok, ltp_raw)
    \/ OnDataMtm
    \/ OnDataExit
    \/ \E tok \in Tokens, ltp_raw \in FineTicks : LegacyOnData(tok, ltp_raw)
    \/ \E past_cutoff \in BOOLEAN : SchedulerJob(past_cutoff)

SpecMtm == Init /\ [][NextMtm]_vars

\* The strategy rules as functions of the indicator snapshot and the side.
NextRules ==
    \E adx_info \in AdxInfos, macd_info \in MacdInfos, current_side \in Sides :
        CheckStrategies(adx_info, macd_info, current_side)

InitRules ==
    /\ InitStore
    /\ db = <<>>
    /\ InitStreaming

SpecRules == InitRules /\ [][NextRules]_vars

\* The indicators as functions of the number of candles and of their windows.
NextIndicators ==
    \E n \in 0..MaxBars, period \in Periods, slow \in SlowSpans :
        CalculateIndicators(n, period, slow)

SpecIndicators == InitRules /\ [][NextIndicators]_vars

\* The feed session of the consumer: from connect() on, the session thread,
\* the transport's callbacks and the control thread's subscribe, unsubscribe
\* and disconnect. The store holds one OPEN position, for token 1.
InitSession ==
    /\ InitStore
    /\ db = <<NewRow(1, "LONG", 10000, 1)>>
    /\ instrument_list = <<>>
    /\ subscribed_tokens = EmptyMap
    /\ token_symbol_map = EmptyMap
    /\ sws = NoTransport
    /\ calls = <<>>

NextSession ==
    \/ \E login_ok \in BOOLEAN, fetch \in {"ok", "failed", "raise"},
          master \in Masters, connect_ok \in BOOLEAN :
          StartSmartApi(login_ok, fetch, master, connect_ok)
    \/ \E master \in Masters : StartSmartApiFetch(master)
    \/ \E connect_ok \in BOOLEAN : StartSmartApiDatafeed(connect_ok)
    \/ OnOpen
    \/ TransportClosed
    \/ \E connect_ok \in BOOLEAN : OnClose(connect_ok)
    \/ Disconnect
    \/ \E syms \in SymbolLists, exchange \in Exchanges, transport_ok \in BOOLEAN :
          HandleSubscribe(syms, exchange, transport_ok)
    \/ \E syms \in SymbolLists, exchange \in Exchanges, transport_ok \in BOOLEAN :
          HandleUnsubscribe(syms, exchange, transport_ok)
    \/ \E tok \in Tokens, ltp_raw \in SessionTicks : ConsumerOnData(tok, ltp_raw)
    \/ \E login_ok \in BOOLEAN : HandleRelogin(login_ok)

SpecSession == InitSession /\ [][NextSession]_vars

\* Failures inside the units of work of a streaming session: the position
\* store raising under a tick, the transport raising under a subscribe or an
\* unsubscribe. The store holds one OPEN position, for token 1.
InitErrors ==
    /\ InitStore
    /\ db = <<NewRow(1, "LONG", 10000, 1)>>
    /\ InitStreaming

NextErrors ==
    \/ \E tok \in Tokens, ltp_raw \in SessionTicks : OnDataRead(tok, ltp_raw)
    \/ OnDataMtm
    \/ OnDataExit
    \/ \E tok \in Tokens, ltp_raw \in SessionTicks : OnDataStoreError(tok, ltp_raw)
    \/ \E syms \in SymbolLists, exchange \in Exchanges, transport_ok \in BOOLEAN :
          HandleSubscribe(syms, exchange, transport_ok)
    \/ \E syms \in SymbolLists, exchange \in Exchanges, transport_ok \in BOOLEAN :
          HandleUnsubscribe(syms, exchange, transport_ok)

SpecErrors == InitErrors /\ [][NextErrors]_vars

\* ------------------------------------------------------------------ claims

HasClosed(d, tok) ==
    \E i \in DOMAIN d : d[i].token = tok /\ d[i].status = "CLOSED"

EventTypes(evs) == {evs[i].type : i \in DOMAIN evs}

\* The position the tick handler read is LONG with stoploss < entry < target.
ReadLongBracketed ==
    /\ feed.pos.side = "LONG"
    /\ feed.pos.stoploss # None
    /\ feed.pos.stoploss < feed.pos.entry_price
    /\ feed.pos.entry_price < feed.pos.target

\* C1: in every reachable state, under any interleaving of strategy signals
\* and ticks, every instrument has at most one position with status OPEN.
C1_AtMostOneOpen == \A t \in Tokens : Cardinality(OpenIds(db, t)) <= 1

\* C1's case: an entry signal has just been handled for an instrument that
\* holds an OPEN position which a tick has marked, while a tick handler for
\* the same instrument is under way.
C1_Witness ==
    /\ last.op = "signal"
    /\ last.arg \in {"BUY", "SELL"}
    /\ HasOpen(db, last.tok)
    /\ db[FindOpen(db, last.tok)].mtm # 0
    /\ feed.pc = "exit"
    /\ feed.tok = last.tok

\* C2: handling a BUY (resp. SELL) signal for an instrument that has no OPEN
\* position leaves it with exactly one OPEN position, of side LONG (resp.
\* SHORT).
C2_EntryOpensOnePosition ==
    [][\A t \in Tokens :
        /\ (HandleStrategySignal(t, "BUY") /\ ~HasOpen(db, t))
               => /\ Cardinality(OpenIds(db', t)) = 1
                  /\ db'[FindOpen(db', t)].side = "LONG"
        /\ (HandleStrategySignal(t, "SELL") /\ ~HasOpen(db, t))
               => /\ Cardinality(OpenIds(db', t)) = 1
                  /\ db'[FindOpen(db', t)].side = "SHORT"]_vars

\* C3: for an OPEN LONG position with stoploss < entry < target, a tick at or
\* beyond the target ends in an auto exit whose reason is "Target reached".
C3_TargetTickReason ==
    (/\ last.op = "on_data_exit"
     /\ ReadLongBracketed
     /\ feed.ltp >= feed.pos.target)
        => /\ feed.should_exit
           /\ feed.exit_reason = "Target reached"

\* C4: for an OPEN LONG position with stoploss < entry < target, a tick with
\* stoploss < ltp < entry + 0.99 * (target - entry) triggers no auto exit: the
\* position stays OPEN and no auto_exit event is sent.
C4_NoBreachNoExit ==
    (/\ last.op = "on_data_exit"
     /\ ReadLongBracketed
     /\ feed.pos.stoploss < feed.ltp
     /\ 100 * feed.ltp < 100 * feed.pos.entry_price
                          + 99 * (feed.pos.target - feed.pos.entry_price))
        => /\ ~feed.should_exit
           /\ "auto_exit" \notin EventTypes(sent)

\* The tick handler has just run its exit block on a stoploss breach: a LONG
\* position with stoploss < entry and ltp <= stoploss, or a SHORT position with
\* stoploss > entry and ltp >= stoploss.
StoplossBreached ==
    /\ last.op = "on_data_exit"
    /\ feed.pos.stoploss # None
    /\ \/ /\ feed.pos.side = "LONG"
          /\ feed.pos.stoploss < feed.pos.entry_price
          /\ feed.ltp <= feed.pos.stoploss
       \/ /\ feed.pos.side = "SHORT"
          /\ feed.pos.stoploss > feed.pos.entry_price
          /\ feed.ltp >= feed.pos.stoploss

\* C5: a tick that reaches or passes the stoploss in the adverse direction
\* closes the position through auto exit with exit reason "Stoploss hit": the
\* handler calls the close with that reason, the position is CLOSED
\* afterwards, and the auto_exit event carries the reason.
C5_StoplossTickExits ==
    StoplossBreached
        => /\ feed.should_exit
           /\ feed.exit_reason = "Stoploss hit"
           /\ db[feed.id].status = "CLOSED"
           /\ db[feed.id].exit_reason \in {"Stoploss hit", SquareOffReason}
           /\ sent = <<[type |-> "auto_exit", token |-> feed.tok,
                        exit_price |-> feed.ltp,
                        exit_reason |-> "Stoploss hit",
                        mtm |-> feed.pos.mtm]>>

\* C5's case: a LONG position was read, the tick came exactly at its stoploss,
\* and the handler's auto exit closed it.
C5_Witness ==
    /\ StoplossBreached
    /\ feed.pos.side = "LONG"
    /\ feed.ltp = feed.pos.stoploss
    /\ db[feed.id].status = "CLOSED"
    /\ db[feed.id].exit_reason = "Stoploss hit"
    /\ db[feed.id].exit_price = feed.ltp

\* C6: the mtm a tick computes for an OPEN position is (ltp - entry) * qty for
\* a LONG position and (entry - ltp) * qty for a SHORT one.
C6_SideAwareMtm ==
    last.op = "on_data_mtm"
        => feed.mtm = SidePnl(feed.pos.side, feed.pos.entry_price, feed.ltp,
                              feed.pos.quantity)

\* C7: no write of the tick handler (the mtm save, the auto-exit close) lands
\* on a position that another operation has already set CLOSED.
C7_TickWritesSerialized ==
    [][/\ (OnDataMtm /\ feed'.saved) => db[feed.id].status = "OPEN"
       /\ (OnDataExit /\ feed'.should_exit) => db[feed.id].status = "OPEN"]_vars

\* C8: a tick for an instrument whose position has been closed (and that has
\* no OPEN position) is a no-op on positions: the handler ends at the store
\* query, no row of the store changes, and nothing but the tick event is sent.
C8_TickAfterCloseNoOp ==
    [][\A t \in Tokens, ltp_raw \in TickPrices :
        (OnDataRead(t, ltp_raw) /\ HasClosed(db, t) /\ ~HasOpen(db, t))
            => /\ db' = db
               /\ feed'.pc = "idle"
               /\ feed'.id = 0
               /\ EventTypes(sent') \subseteq {"tick"}]_vars

\* C8's case: the auto exit closed the instrument's position, and a later
\* tick with a price for that instrument has been handled.
C8_Witness ==
    /\ last.op = "on_data"
    /\ last.arg # 0
    /\ HasClosed(db, last.tok)
    /\ ~HasOpen(db, last.tok)
    /\ \E i \in DOMAIN db :
          /\ db[i].token = last.tok
          /\ db[i].exit_reason = "Stoploss hit"
          /\ db[i].exit_price \in {9850, 9900}
    /\ feed.pc = "idle"

\* C9: invoking the close for an instrument whose position is already CLOSED,
\* or that has no position, leaves every row of the store as it was: status,
\* exit price and mtm are not applied a second time.
C9_CloseIdempotent ==
    [][/\ (OnDataExit /\ feed'.should_exit /\ ~HasOpen(db, feed.tok))
            => db' = db
       /\ \A t \in Tokens :
            (HandleStrategySignal(t, "EXIT") /\ ~HasOpen(db, t)) => db' = db]_vars

\* C9's case: the tick handler invoked the close for a position that the
\* square-off had closed after the handler read it.
C9_Witness ==
    /\ last.op = "on_data_exit"
    /\ feed.should_exit
    /\ db[feed.id].status = "CLOSED"
    /\ db[feed.id].exit_reason = SquareOffReason

\* C10: after an EXIT signal is handled for an instrument that has an OPEN
\* position, the instrument has no OPEN position.
C10_ExitCloses ==
    [][\A t \in Tokens :
        (HandleStrategySignal(t, "EXIT") /\ HasOpen(db, t))
            => ~HasOpen(db', t)]_vars

\* C11: a BUY or SELL signal handled for an instrument that already has an
\* OPEN position is ignored: the set of positions and every field of the
\* existing position are unchanged, and no error is reported.
C11_EntryOnOpenIgnored ==
    [][\A t \in Tokens, a \in {"BUY", "SELL"} :
        (HandleStrategySignal(t, a) /\ HasOpen(db, t))
            => /\ db' = db
               /\ positions' = positions
               /\ EventTypes(sent') = {"strategy_signal"}]_vars

\* C11's case: a SELL signal has been handled for an instrument whose LONG
\* position is OPEN, with no tick handler under way.
C11_Witness ==
    /\ last.op = "signal"
    /\ last.arg = "SELL"
    /\ HasOpen(db, last.tok)
    /\ db[FindOpen(db, last.tok)].side = "LONG"
    /\ feed.pc = "idle"

\* An evaluation cycle has just run in which the ADX rule and the MACD rule
\* each produced a signal.
BothRulesFired ==
    /\ last.op = "get_historical"
    /\ last.arg[1] \in SignalActions
    /\ last.arg[2] \in SignalActions

\* C12: in one evaluation cycle in which both the ADX rule and the MACD rule
\* produce a signal, both signals are forwarded to the signal handler, the
\* ADX signal first and the MACD signal second.
C12_BothSignalsForwarded ==
    BothRulesFired
        => /\ Len(sent) >= 2
           /\ sent[1].type = "strategy_signal"
           /\ sent[1].action = last.arg[1]
           /\ sent[2].type = "strategy_signal"
           /\ sent[2].action = last.arg[2]

\* Every token of the subscription sets is subscribed on the transport's
\* current connection.
AllOnWire ==
    \A k \in DOMAIN subscribed_tokens :
        \A t \in subscribed_tokens[k] : <<k, t>> \in sws.wire

\* C13: after the feed transport closes and the session reconnects (on_close,
\* then connect, then on_open), every token that was in the subscription sets
\* before the disconnect is subscribed again on the transport.
C13_ResubscribedOnReopen ==
    (last.op = "on_open" /\ sws.connects > 1) => AllOnWire

\* C14: after an explicit shutdown (disconnect, which closes the transport)
\* no further connect() is called on the transport, although the close fires
\* on_close.
C14_NoConnectAfterShutdown ==
    [][(sws.shutdown /\ sws.created) => sws'.connects = sws.connects]_vars

\* A reconnect attempt: on_close runs and calls connect().
ReconnectAttempt == \E connect_ok \in BOOLEAN : OnClose(connect_ok)

\* C15: reconnection is retried without bound: once a reconnect attempt has
\* failed (connect raised) and no shutdown was requested, another reconnect
\* attempt is to come.
C15_RetryAfterFailedReconnect ==
    (sws.phase = "reconnect_failed" /\ ~sws.shutdown /\ sws.connects < MaxConnects)
        => ENABLED ReconnectAttempt

\* The tokens the requested symbols resolve to on the exchange.
Resolved(list, syms, exchange) ==
    {list[FirstMatch(list, syms[k], exchange)].token :
        k \in {j \in DOMAIN syms : FirstMatch(list, syms[j], exchange) # 0}}

\* The tokens the step's call handed to the transport, in order.
TokensSent(cs) == IF cs = <<>> THEN <<>> ELSE cs[1].tokens

\* C16: a subscribe request sends to the transport exactly the resolved tokens
\* that are not already in the segment's subscription set, each token once,
\* and adds exactly those to the set; hence repeating an identical subscribe
\* request sends nothing and leaves the subscription sets unchanged.
C16_SubscribeSendsNewTokensOnce ==
    [][\A syms \in SymbolLists, exchange \in Exchanges :
        (/\ HandleSubscribe(syms, exchange, TRUE)
         /\ instrument_list # <<>>
         /\ TransportAccepts(TRUE))
            => LET k     == ExchangeType(exchange)
                   old   == IF k \in DOMAIN subscribed_tokens
                            THEN subscribed_tokens[k] ELSE {}
                   fresh == Resolved(instrument_list, syms, exchange) \ old
                   toks  == TokensSent(calls')
               IN  /\ SeqToSet(toks) = fresh
                   /\ Len(toks) = Cardinality(fresh)
                   /\ fresh = {} => subscribed_tokens' = subscribed_tokens
                   /\ fresh # {} =>
                        /\ DOMAIN subscribed_tokens' = DOMAIN subscribed_tokens \cup {k}
                        /\ subscribed_tokens'[k] = old \cup fresh
                        /\ \A j \in DOMAIN subscribed_tokens \ {k} :
                              subscribed_tokens'[j] = subscribed_tokens[j]
                   /\ (/\ last.op = "subscribe"
                       /\ last.arg.syms = syms
                       /\ last.arg.exchange = exchange
                       /\ calls # <<>>)
                          => /\ calls' = <<>>
                             /\ subscribed_tokens' = subscribed_tokens]_vars

\* C17: after any sequence of subscribe and unsubscribe requests, no token is
\* a member of the subscription sets of two different exchange segments.
C17_TokenInOneSegment ==
    \A j, k \in DOMAIN subscribed_tokens :
        j # k => subscribed_tokens[j] \cap subscribed_tokens[k] = {}

\* C18: unsubscribe removes the given subscribed tokens from their segment's
\* set and deletes the segment's entry when its set becomes empty: no segment
\* key of the subscription sets maps to an empty set.
C18_NoEmptySegment ==
    /\ \A k \in DOMAIN subscribed_tokens : subscribed_tokens[k] # {}
    /\ (last.op = "unsubscribe" /\ calls # <<>>)
          => \A t \in SeqToSet(calls[1].tokens) :
                ~IsSubscribed(subscribed_tokens, calls[1].exchangeType, t)

\* C18's case: an unsubscribe has removed the last token of a segment, whose
\* entry is gone, while another segment keeps its tokens.
C18_Witness ==
    /\ last.op = "unsubscribe"
    /\ calls # <<>>
    /\ calls[1].exchangeType \notin DOMAIN subscribed_tokens
    /\ DOMAIN subscribed_tokens # {}

\* The mtm block's effect for a position read with mtm `stored`, stored under
\* `id`, and a newly computed mtm `new`: written and announced when their
\* difference exceeds the threshold, otherwise neither.
MtmRule(new, stored, threshold, id, d, evs) ==
    IF Abs(new - stored) > threshold
    THEN /\ d[id].mtm = new
         /\ "mtm_update" \in EventTypes(evs)
    ELSE /\ d[id].mtm = db[id].mtm
         /\ "mtm_update" \notin EventTypes(evs)

\* C19: on a tick for an instrument with an OPEN position, the stored mtm is
\* overwritten and an mtm_update event is sent if and only if the absolute
\* difference between the new mtm and the stored one exceeds the handler's
\* threshold; otherwise the stored mtm stays and no mtm_update is sent.
C19_MtmSavedIffSignificant ==
    [][/\ OnDataMtm
           => MtmRule(TickMtm(feed.ltp, feed.pos.entry_price, feed.pos.quantity),
                      feed.pos.mtm, MtmThreshold, feed.id, db', sent')
       /\ \A t \in Tokens, ltp_raw \in FineTicks \ {0} :
            (/\ LegacyOnData(t, ltp_raw)
             /\ HasOpen(db, t)
             /\ db[FindOpen(db, t)].entry_price # None)
               => MtmRule(Ltp(ltp_raw) - db[FindOpen(db, t)].entry_price,
                          db[FindOpen(db, t)].mtm, LegacyMtmThreshold,
                          FindOpen(db, t), db', sent')]_vars

\* C19's case: a tick moved the mtm of an OPEN position by exactly the
\* threshold, and the handler left the stored mtm as it was.
C19_Witness ==
    /\ last.op = "on_data_mtm"
    /\ feed.pos.mtm # 0
    /\ Abs(feed.mtm - feed.pos.mtm) = MtmThreshold
    /\ ~feed.saved
    /\ db[feed.id].mtm = feed.pos.mtm
    /\ db[feed.id].status = "OPEN"

\* C20: every inbound tick in the streaming state is handed both to the
\* position lifecycle logic (the handler goes on to the position of that
\* token with the price) and to the outbound collaborator, as one tick event
\* carrying price = last_traded_price / 100 and the symbol mapped to the
\* token ("UNKNOWN" when unmapped).
C20_TickHandedOn ==
    (last.op \in {"on_data", "consumer_on_data", "legacy_on_data"})
        => /\ Len(sent) >= 1
           /\ sent[1] = [type |-> "tick",
                         symbol |-> SymbolFor(token_symbol_map, last.tok),
                         token |-> last.tok,
                         ltp |-> (last.arg * 100) \div PriceDivisor]
           /\ Cardinality({i \in DOMAIN sent : sent[i].type = "tick"}) = 1
           /\ feed.tok = last.tok
           /\ feed.ltp = (last.arg * 100) \div PriceDivisor

\* The last step was a unit of work in which a collaborator raised: the
\* position store under a tick, or the transport under a control command.
UnitFailed ==
    \/ last.op = "on_data_error"
    \/ /\ last.op \in {"subscribe", "unsubscribe"}
       /\ ~last.arg.ok
       /\ sent # <<>>

\* A later tick and a later control command can be handled.
LoopGoesOn ==
    /\ feed.pc = "idle" => ENABLED (\E tok \in Tokens : OnDataRead(tok, 10050))
    /\ ENABLED (\E exchange \in Exchanges : HandleSubscribe(<<>>, exchange, TRUE))

\* C21: no error terminates the feed loop: a failure raised while one tick is
\* processed is caught in the tick handler and reported as an error event,
\* and later ticks are still processed; a failing control command yields an
\* error event, and later commands are still handled.
C21_FailuresReported ==
    UnitFailed => /\ "error" \in EventTypes(sent)
                  /\ LoopGoesOn

\* C22: when the broker rejects the login, exactly one error event carrying
\* the broker's message and login_status FAILED is sent, and the session
\* never creates or connects a streaming transport: it never streams and no
\* tick is dispatched.
C22_LoginRejectedStops ==
    /\ (last.op = "start_smartapi" /\ ~last.arg[1])
          => /\ sent = <<[type |-> "error", message |-> "Login failed",
                          login_status |-> "FAILED"]>>
             /\ sws.phase = "login_failed"
    /\ sws.phase = "login_failed"
          => /\ ~sws.created
             /\ sws.connects = 0
             /\ sws.wire = {}
             /\ last.op # "consumer_on_data"
             /\ \A i \in DOMAIN calls : calls[i].op # "connect"

\* C22's case: the login was rejected, and a control command has been handled
\* since.
C22_Witness ==
    /\ sws.phase = "login_failed"
    /\ last.op \in {"subscribe", "relogin"}
    /\ ~sws.created

\* C23: when fetching the instrument master fails (a non-success response, or
\* the fetch raising), the failure is reported to the outbound collaborator
\* and the session still creates and connects the streaming transport,
\* running without symbol resolution.
C23_FetchFailureDegrades ==
    (/\ last.op = "start_smartapi"
     /\ last.arg[1]
     /\ last.arg[2] \in {"failed", "raise"})
        => /\ "error" \in EventTypes(sent)
           /\ sws.created
           /\ sws.connects = 1
           /\ instrument_list = <<>>

\* C24: the ADX rule returns, for every (+DI, -DI, side): with side NONE, BUY
\* if +DI > 20, else SELL if -DI > 20, else no signal (BUY when both exceed
\* 20); with side LONG, EXIT iff +DI < 18; with side SHORT, EXIT iff
\* -DI < 18; no signal for any side when the ADX snapshot is unavailable; and
\* never more than one signal.
C24_AdxRuleTable ==
    last.op = "check_strategies"
        => LET a   == last.arg.adx_info
               s   == last.arg.current_side
               out == last.out.adx
           IN  /\ out \in SignalActions \cup {NoSignal}
               /\ a.adx = None => out = NoSignal
               /\ (a.adx # None /\ s = "NONE") =>
                     /\ a.di_plus > DiEntryLevel => out = "BUY"
                     /\ (a.di_plus <= DiEntryLevel /\ a.di_minus > DiEntryLevel)
                            => out = "SELL"
                     /\ (a.di_plus <= DiEntryLevel /\ a.di_minus <= DiEntryLevel)
                            => out = NoSignal
               /\ (a.adx # None /\ s = "LONG") =>
                     /\ out = "EXIT" <=> a.di_plus < DiExitLevel
                     /\ out \in {"EXIT", NoSignal}
               /\ (a.adx # None /\ s = "SHORT") =>
                     /\ out = "EXIT" <=> a.di_minus < DiExitLevel
                     /\ out \in {"EXIT", NoSignal}

\* C24's case: with no position and both +DI and -DI above 20, the rule
\* answered BUY.
C24_Witness ==
    /\ last.op = "check_strategies"
    /\ last.arg.current_side = "NONE"
    /\ last.arg.adx_info.di_plus > DiEntryLevel
    /\ last.arg.adx_info.di_minus > DiEntryLevel
    /\ last.out.adx = "BUY"

\* C25: the MACD rule returns, for every (macdLine, side): with side NONE,
\* BUY if macdLine > 0, SELL if macdLine < 0, no signal if macdLine = 0; with
\* side LONG, EXIT iff macdLine < 0; with side SHORT, EXIT iff macdLine > 0;
\* and no signal for any side when the MACD snapshot is unavailable.
C25_MacdRuleTable ==
    last.op = "check_strategies"
        => LET m   == last.arg.macd_info
               s   == last.arg.current_side
               out == last.out.macd
           IN  /\ ~m.has => out = NoSignal
               /\ (m.has /\ s = "NONE") =>
                     /\ m.line > 0 => out = "BUY"
                     /\ m.line < 0 => out = "SELL"
                     /\ m.line = 0 => out = NoSignal
               /\ (m.has /\ s = "LONG") =>
                     /\ out = "EXIT" <=> m.line < 0
                     /\ out \in {"EXIT", NoSignal}
               /\ (m.has /\ s = "SHORT") =>
                     /\ out = "EXIT" <=> m.line > 0
                     /\ out \in {"EXIT", NoSignal}

\* C25's case: with no position and a MACD line of exactly zero, the rule gave
\* no signal.
C25_Witness ==
    /\ last.op = "check_strategies"
    /\ last.arg.current_side = "NONE"
    /\ last.arg.macd_info.has
    /\ last.arg.macd_info.line = 0
    /\ last.out.macd = NoSignal

\* The tokens of the master's instruments on the exchange that carry one of
\* the requested symbols.
KnownTokens(list, syms, exchange) ==
    {list[i].token : i \in {j \in DOMAIN list :
                               /\ list[j].symbol \in SeqToSet(syms)
                               /\ list[j].exch_seg = exchange}}

\* The request names a symbol the master holds on the exchange and one it
\* does not.
Mixed(list, syms, exchange) ==
    /\ KnownTokens(list, syms, exchange) # {}
    /\ \E k \in DOMAIN syms :
          \A i \in DOMAIN list :
              ~(list[i].symbol = syms[k] /\ list[i].exch_seg = exchange)

\* C26: a subscribe request that mixes trading symbols found in the
\* instrument master with symbols that are not found raises no error, skips
\* the unknown symbols, and subscribes every known symbol's token.
C26_UnknownSymbolsSkipped ==
    [][\A syms \in SymbolLists, exchange \in Exchanges :
        (/\ HandleSubscribe(syms, exchange, TRUE)
         /\ instrument_list # <<>>
         /\ TransportAccepts(TRUE)
         /\ Mixed(instrument_list, syms, exchange))
            => LET k     == ExchangeType(exchange)
                   old   == IF k \in DOMAIN subscribed_tokens
                            THEN subscribed_tokens[k] ELSE {}
                   known == KnownTokens(instrument_list, syms, exchange)
               IN  /\ "error" \notin EventTypes(sent')
                   /\ k \in DOMAIN subscribed_tokens'
                   /\ subscribed_tokens'[k] = old \cup known
                   /\ SeqToSet(TokensSent(calls')) = known \ old
                   /\ \A j \in DOMAIN subscribed_tokens' \ {k} :
                         /\ j \in DOMAIN subscribed_tokens
                         /\ subscribed_tokens'[j] = subscribed_tokens[j]]_vars

\* C26's case: a request for C, which the master does not hold on NSE, and
\* for A has been handled, and A's token is subscribed.
C26_Witness ==
    /\ last.op = "subscribe"
    /\ last.arg.syms = <<"C", "A">>
    /\ last.arg.exchange = "NSE"
    /\ sent = <<StatusEvent("subscribed")>>
    /\ calls # <<>>
    /\ calls[1].tokens = <<1>>
    /\ IsSubscribed(subscribed_tokens, 1, 1)

\* C27: each indicator returns "unavailable" (None) without raising for every
\* input shorter than its minimum window, RSI for fewer than period + 1
\* closes, MACD for fewer than slow closes, ADX for fewer than 2 * period
\* bars, and returns a value for every input at least that long.
C27_UnavailableBelowWindow ==
    last.op = "calculate"
        => /\ last.out.rsi.has <=> last.arg.n >= last.arg.period + 1
           /\ last.out.macd <=> last.arg.n >= last.arg.slow
           /\ last.out.adx <=> last.arg.n >= 2 * last.arg.period

\* C27's case: with the default windows and 27 candles the RSI and the MACD
\* have a value and the ADX has none.
C27_Witness ==
    /\ last.op = "calculate"
    /\ last.arg.period = RsiPeriod
    /\ last.arg.slow = MacdSlow
    /\ last.arg.n = 2 * AdxPeriod - 1
    /\ last.out.rsi.has
    /\ last.out.macd
    /\ ~last.out.adx

\* How many times the RSI value counts delta j: once for each place in the
\* seed and once for each smoothing step that applies it.
DeltaUses(rsi, j) ==
    Cardinality({i \in DOMAIN rsi.seed : rsi.seed[i] = j})
        + Cardinality({i \in DOMAIN rsi.steps : rsi.steps[i] = j})

\* C29: in the RSI computation each price delta is used exactly once: the
\* first `period` deltas form the seed averages, each later delta is applied
\* in exactly one smoothing step, and no delta is counted both in the seed and
\* in a smoothing step.
C29_EachDeltaOnce ==
    (last.op = "calculate" /\ last.out.rsi.has)
        => /\ last.out.rsi.seed = Range(1, last.arg.period)
           /\ \A j \in 1..(last.arg.n - 1) : DeltaUses(last.out.rsi, j) = 1

\* A run of the periodic job past the end-of-session cutoff.
SquareOffStep == last'.op = "scheduler" /\ last'.arg = "past"

\* C28: when the periodic job runs past the end-of-session cutoff, every
\* position that is OPEN at that moment is force-closed exactly once with
\* exit reason "Market close auto square-off", the positions already closed
\* are left as they are, and no OPEN position remains afterwards.
C28_SquareOffClosesEveryOpen ==
    [][SquareOffStep =>
        /\ DOMAIN db' = DOMAIN db
        /\ \A i \in DOMAIN db :
              IF db[i].status = "OPEN"
              THEN /\ db'[i].status = "CLOSED"
                   /\ db'[i].exit_reason = "Market close auto square-off"
                   /\ db'[i].token = db[i].token
              ELSE db'[i] = db[i]
        /\ \A t \in Tokens : ~HasOpen(db', t)]_vars

\* C28's case: the job ran past the cutoff and two positions carry the
\* square-off's reason.
C28_Witness ==
    /\ last.op = "scheduler"
    /\ last.arg = "past"
    /\ \E i, j \in DOMAIN db :
          /\ i # j
          /\ db[i].exit_reason = SquareOffReason
          /\ db[j].exit_reason = SquareOffReason

\* The sides of the OPEN positions the store holds for a token.
StoreSides(d, tok) == {d[i].side : i \in OpenIds(d, tok)}

\* C30: the side the strategy rules evaluate against is the real one: in an
\* evaluation cycle for an instrument that has an OPEN position in the store
\* the tick handler reads, the current side the rules use is that position's
\* side, so no BUY or SELL entry signal is emitted for that instrument.
C30_RulesSeeStoreSide ==
    [][(last'.op = "get_historical" /\ HasOpen(db, last'.tok))
        => \A i \in DOMAIN sent' :
              sent'[i].type = "strategy_signal"
                  => /\ sent'[i].current_side \in StoreSides(db, last'.tok)
                     /\ sent'[i].action \notin {"BUY", "SELL"}]_vars

\* Every token some segment's subscription set holds.
SubscribedAnywhere == UNION {subscribed_tokens[k] : k \in DOMAIN subscribed_tokens}

\* C31: after any sequence of subscribe and unsubscribe requests, every token
\* that is in some segment's subscription set has an entry in
\* token_symbol_map, so a tick for a subscribed token is never reported with
\* the symbol "UNKNOWN".
C31_SubscribedTokensNamed ==
    /\ SubscribedAnywhere \subseteq DOMAIN token_symbol_map
    /\ (/\ last.op = "consumer_on_data"
        /\ last.tok \in SubscribedAnywhere
        /\ sent # <<>>)
           => sent[1].symbol # "UNKNOWN"

\* The request of this step is a subscribe or unsubscribe that resolves at
\* least one token to send, and the transport's call fails: there is no
\* transport object, its connection is not open, or the send raises.
FailedTransportCall ==
    /\ last'.op \in {"subscribe", "unsubscribe"}
    /\ ~NotLoaded(instrument_list)
    /\ IF last'.op = "subscribe"
       THEN SubscribeTokens(instrument_list, subscribed_tokens,
                            last'.arg.syms, last'.arg.exchange) # <<>>
       ELSE UnsubscribeTokens(instrument_list, subscribed_tokens,
                              last'.arg.syms, last'.arg.exchange) # <<>>
    /\ ~(sws.created /\ sws.phase = "open" /\ last'.arg.ok)

\* C32: if the transport's subscribe or unsubscribe call fails (raises,
\* including when the transport object does not exist yet), the request
\* reports an error event and leaves both the subscription sets and
\* token_symbol_map exactly as they were before the request.
C32_FailedCallChangesNothing ==
    [][FailedTransportCall
        => /\ Len(sent') = 1
           /\ sent'[1].type = "error"
           /\ subscribed_tokens' = subscribed_tokens
           /\ token_symbol_map' = token_symbol_map]_vars

\* C32's case: a subscribe request failed while the instrument list was
\* loaded and the transport object did not exist yet.
C32_Witness ==
    /\ last.op = "subscribe"
    /\ sent = <<ErrorEvent("subscribe raised")>>
    /\ instrument_list # <<>>
    /\ ~sws.created

\* C33: while the instrument list is not loaded (before login completes or
\* after a failed fetch), every subscribe or unsubscribe request emits the
\* error "Instrument list not loaded", makes no transport call, and leaves
\* the subscription sets and token_symbol_map unchanged.
C33_NotLoadedRefused ==
    [][(last'.op \in {"subscribe", "unsubscribe"} /\ instrument_list = <<>>)
        => /\ sent' = <<[type |-> "error",
                         message |-> "Instrument list not loaded"]>>
           /\ calls' = <<>>
           /\ sws'.wire = sws.wire
           /\ subscribed_tokens' = subscribed_tokens
           /\ token_symbol_map' = token_symbol_map]_vars

\* C33's case: the download of the instrument master failed, the transport
\* is open, and a subscribe request that names symbols was refused.
C33_Witness ==
    /\ last.op = "subscribe"
    /\ last.arg.syms # <<>>
    /\ last.arg.ok
    /\ instrument_list = <<>>
    /\ sws.phase = "open"
    /\ sent = <<ErrorEvent("Instrument list not loaded")>>

\* This step is a step of a tick handler, for the token last'.tok.
TickStep ==
    last'.op \in {"on_data", "on_data_mtm", "on_data_exit", "on_data_error",
                  "legacy_on_data", "consumer_on_data"}

\* This step is a whole tick handler run on a tick whose last_traded_price is
\* missing or zero.
EmptyTickStep ==
    /\ last'.op \in {"on_data", "legacy_on_data", "consumer_on_data"}
    /\ last'.arg = 0

\* C34: a tick for token T changes nothing but T's own OPEN position: it
\* never creates a position, never modifies a position of another token,
\* never modifies a CLOSED position, and never changes the subscription sets
\* or token_symbol_map; a tick whose last_traded_price is missing or zero
\* changes no state and emits no event at all.
C34_TickFrame ==
    [][/\ TickStep
          => /\ DOMAIN db' = DOMAIN db
             /\ \A i \in DOMAIN db :
                   db'[i] # db[i]
                       => db[i].token = last'.tok /\ db[i].status = "OPEN"
             /\ positions' = positions
             /\ subscribed_tokens' = subscribed_tokens
             /\ token_symbol_map' = token_symbol_map
       /\ EmptyTickStep
          => /\ sent' = <<>>
             /\ db' = db
             /\ positions' = positions
             /\ UNCHANGED session]_vars

====
